---- MODULE Spec2Model ----
(***************************************************************************)
(* Model of src/src/script.js: the galaxy generator (generateGalaxy), the  *)
(* lil-gui controllers that call it on finish-change, and the render loop  *)
(* (tick).  JavaScript runs every callback to completion on one thread, so *)
(* each handler is one action.                                             *)
(*                                                                         *)
(* Numbers: a JavaScript Number is modelled as an exact rational [n, d]    *)
(* (d > 0, lowest terms); [n |-> 0, d |-> 0] is NaN.  parameters.count and *)
(* parameters.branches hold integers.  An angle is kept as the pair        *)
(* (turns, rad): turns * 2*PI + rad; a position component that involves    *)
(* Math.cos / Math.sin is kept as the term  fn(angle) * radius + plus.     *)
(***************************************************************************)
EXTENDS Integers, Sequences, FiniteSets, TLC

(* ------------------------------ bounds -------------------------------- *)
\* generateGalaxy is invoked at most MaxCalls times in a run.
MaxCalls == 3
\* A controller commits min, min+step, ..., min+UISteps*step, or max.
UISteps == 0
\* Math.random() returns one of 0/RandDen, ..., (RandDen-1)/RandDen.
RandDen == 4
\* Particle indices 0..MaxIndex are examined by the loop-body machine.
MaxIndex == 3

(* ------------------------- Number arithmetic -------------------------- *)
Abs(a) == IF a < 0 THEN -a ELSE a

RECURSIVE Gcd(_, _)
Gcd(a, b) == IF b = 0 THEN a ELSE Gcd(b, a % b)

NaN == [n |-> 0, d |-> 0]

IsNaN(x) == x.d = 0

\* the Number n/d (d # 0), in lowest terms with a positive denominator
R(n, d) ==
    LET g == Gcd(Abs(n), Abs(d))
        s == IF d < 0 THEN -1 ELSE 1
    IN  [n |-> s * (n \div g), d |-> s * (d \div g)]

Num(k) == [n |-> k, d |-> 1]

\* x + y
RAdd(x, y) ==
    IF IsNaN(x) \/ IsNaN(y) THEN NaN
    ELSE R(x.n * y.d + y.n * x.d, x.d * y.d)

\* x - y
RSub(x, y) ==
    IF IsNaN(x) \/ IsNaN(y) THEN NaN
    ELSE R(x.n * y.d - y.n * x.d, x.d * y.d)

\* x * y
RMul(x, y) ==
    IF IsNaN(x) \/ IsNaN(y) THEN NaN
    ELSE R(x.n * y.n, x.d * y.d)

\* x / y; 0/0 is NaN (a nonzero x over 0 is +-Infinity, kept as [+-1, 0])
RDiv(x, y) ==
    IF IsNaN(x) \/ IsNaN(y) THEN NaN
    ELSE IF y.n = 0 THEN [n |-> IF x.n > 0 THEN 1 ELSE IF x.n < 0 THEN -1 ELSE 0, d |-> 0]
    ELSE R(x.n * y.d, x.d * y.n)

\* x <= y on finite Numbers (false when either is not finite, as in IEEE)
RLe(x, y) == x.d > 0 /\ y.d > 0 /\ x.n * y.d <= y.n * x.d

\* i % b for an integer i >= 0: NaN when b = 0, the sign of i otherwise
JsMod(i, b) == IF b = 0 THEN NaN ELSE Num(i % Abs(b))

(* ----------------------------- parameters ----------------------------- *)
Fields ==
    {"count", "size", "radius", "branches", "spin", "randomness",
     "randomnessPower", "insideColor", "outsideColor"}

\* a colour string '#rrggbb' is kept as its three bytes
Hex_ff6030 == <<255, 96, 48>>
Hex_1b3984 == <<27, 57, 132>>
Hex_ffffff == <<255, 255, 255>>

DefaultParameters ==
    [count |-> 114400,
     size |-> R(1, 100),
     radius |-> R(69, 10),
     branches |-> 8,
     spin |-> Num(1),
     randomness |-> R(2, 10),
     randomnessPower |-> Num(3),
     insideColor |-> Hex_ff6030,
     outsideColor |-> Hex_1b3984]

\* values an integer controller .min(lo).max(hi).step(st) can commit
IntRange(lo, hi, st) == {lo + k * st : k \in 0..UISteps} \cup {hi}

\* values a fractional controller .min(lo).max(hi).step(st) can commit
NumRange(lo, hi, st) == {RAdd(lo, RMul(Num(k), st)) : k \in 0..UISteps} \cup {hi}

\* colours picked in the colour controllers
Palette == {Hex_ff6030, Hex_1b3984, Hex_ffffff}

\* the values each controller of galaxyFolder lets the user commit
UIRange ==
    [count |-> IntRange(100, 1000000, 100),
     size |-> NumRange(R(1, 1000), R(1, 10), R(1, 1000)),
     radius |-> NumRange(Num(1), Num(20), R(1, 10)),
     branches |-> IntRange(2, 20, 1),
     spin |-> NumRange(Num(-5), Num(5), R(1, 1000)),
     randomness |-> NumRange(Num(0), Num(2), R(1, 1000)),
     randomnessPower |-> NumRange(Num(1), Num(10), R(1, 1000)),
     insideColor |-> Palette,
     outsideColor |-> Palette]

\* finite values no controller lets through, which a direct caller may set
OutsideUI ==
    [count |-> {-100, 0},
     size |-> {Num(0)},
     radius |-> {Num(0)},
     branches |-> {0},
     spin |-> {Num(-6)},
     randomness |-> {Num(3)},
     randomnessPower |-> {Num(0)},
     insideColor |-> {},
     outsideColor |-> {}]

AnyRange == [f \in Fields |-> UIRange[f] \cup OutsideUI[f]]

(* ------------------------ the loop body, l.49-68 ---------------------- *)
\* the values Math.random() returns: uniform in [0, 1), never 1
RandVals == {R(k, RandDen) : k \in 0..(RandDen - 1)}

\* new THREE.Color('#rrggbb'): the three channels in [0, 1]
Color(hex) == <<R(hex[1], 255), R(hex[2], 255), R(hex[3], 255)>>

\* c1.clone().lerp(c2, alpha): each channel c1 + (c2 - c1) * alpha
Lerp(c1, c2, alpha) ==
    [k \in 1..3 |-> RAdd(c1[k], RMul(RSub(c2[k], c1[k]), alpha))]

\* l.51: radius = Math.random() * parameters.radius
ParticleRadius(u, p) == RMul(u, p.radius)

\* l.52: spinAngle = radius * parameters.spin
SpinAngle(radius, p) == RMul(radius, p.spin)

\* faulty variant: the index is not reduced modulo branches
BranchAngleNoWrap(i, p) == RDiv(Num(i), Num(p.branches))

\* l.53: branchAngle, in turns (the factor Math.PI * 2 is the unit)
BranchAngle(i, p) == RDiv(JsMod(i, p.branches), Num(p.branches))

\* l.55-57: (Math.random() - 0.5) * parameters.randomness * radius
Jitter(u, p, radius) == RMul(RMul(RSub(u, R(1, 2)), p.randomness), radius)

\* l.59, l.61: fn(branchAngle + spinAngle) * radius + plus, fn cos or sin
Term(fn, turns, rad, radius, plus) ==
    [fn |-> fn, turns |-> turns, rad |-> rad, radius |-> radius, plus |-> plus]

\* l.64: the interpolation factor radius / parameters.radius
MixFactor(radius, p) == RDiv(radius, p.radius)

\* one iteration of the loop for index i with the four Math.random() draws
\* u = [radius, x, y, z]: what it writes at positions[i3..] and colors[i3..]
Particle(i, p, u) ==
    LET radius == ParticleRadius(u.radius, p)
        spinAngle == SpinAngle(radius, p)
        branchAngle == BranchAngle(i, p)
        randomX == Jitter(u.x, p, radius)
        randomY == Jitter(u.y, p, radius)
        randomZ == Jitter(u.z, p, radius)
        mixedColor == Lerp(Color(p.insideColor), Color(p.outsideColor),
                           MixFactor(radius, p))
    IN  [position |-> <<Term("cos", branchAngle, spinAngle, radius, randomX),
                        randomY,
                        Term("sin", branchAngle, spinAngle, radius, randomZ)>>,
         color |-> mixedColor]

\* the parameter values the loop-body machine is run on
ParticleParameters ==
    {[DefaultParameters EXCEPT !.radius = r, !.branches = b, !.spin = sp,
                               !.randomness = rn, !.randomnessPower = pw] :
        r \in {Num(0), Num(1), R(69, 10)}, b \in {2, 3, 8},
        sp \in {Num(-5), Num(1)}, rn \in {Num(0), R(2, 10)},
        pw \in {Num(1), Num(3)}}

\* the draws of one iteration
Draws == [radius : RandVals, x : RandVals, y : RandVals, z : RandVals]

(* ------------------------------- state -------------------------------- *)
VARIABLES
    parameters,      \* the parameters object (l.19-29)
    geometry,        \* let geometry: an object id, or Null (l.31)
    galaxyMaterial,  \* let galaxyMaterial: an object id, or Null (l.32)
    points,          \* let points: an object id, or Null (l.33)
    heap,            \* the THREE objects allocated so far; an id is an index
    disposed,        \* ids of the objects dispose() has been called on
    scene,           \* ids of the galaxy Points objects that are children of scene
    calls,           \* number of generateGalaxy invocations so far
    thrown,          \* whether the latest generateGalaxy invocation raised
    loaded,          \* whether the module body has run (l.87-231)
    changed,         \* the controller with an uncommitted change, or "none"
    rendered,        \* what the latest renderer.render(scene, camera) drew
    particle         \* the loop-body machine: one iteration of l.49-68

vars ==
    <<parameters, geometry, galaxyMaterial, points, heap, disposed, scene,
      calls, thrown, loaded, changed, rendered, particle>>

Null == 0

\* the module-level state generateGalaxy reads and writes
Cur ==
    [geometry |-> geometry, galaxyMaterial |-> galaxyMaterial, points |-> points,
     heap |-> heap, disposed |-> disposed, scene |-> scene, thrown |-> FALSE]

(* --------------------------- generateGalaxy --------------------------- *)
RangeError == [error |-> "RangeError"]

\* new Float32Array(len): len elements, or RangeError for a negative length.
\* call is the invocation that allocates it, from the parameters its
\* elements are computed from by the loop body.
Float32Array(len, call, from) ==
    IF len < 0 THEN RangeError
    ELSE [length |-> len, call |-> call, from |-> from]

\* the value of an attribute a geometry does not have
Undefined == [undefined |-> TRUE]

\* new THREE.BufferGeometry(): no attributes yet
BufferGeometry ==
    [type |-> "BufferGeometry", position |-> Undefined, color |-> Undefined]

\* new THREE.PointsMaterial({size: ...})
PointsMaterial(size) == [type |-> "PointsMaterial", size |-> size]

\* new THREE.Points(g, m): rotation is (0, 0, 0) on construction
Points(g, m) == [type |-> "Points", geometry |-> g, material |-> m, rotationX |-> Num(0)]

\* Math.PI / 2, in units of PI
HalfPi == R(1, 2)

\* faulty variant: the previous geometry and material are never disposed
TeardownNoDispose(s) ==
    IF s.points # Null THEN [s EXCEPT !.scene = @ \ {s.points}] ELSE s

\* faulty variant: the previous Points object is never removed from the scene
TeardownNoRemove(s) ==
    IF s.points # Null
    THEN [s EXCEPT !.disposed = @ \cup {s.geometry, s.galaxyMaterial}]
    ELSE s

\* l.36-40: release and detach the previous output
Teardown(s) ==
    IF s.points # Null
    THEN [s EXCEPT !.disposed = @ \cup {s.geometry, s.galaxyMaterial},
                   !.scene = @ \ {s.points}]
    ELSE s

\* l.43: the positions buffer
PositionsArray(p, call) ==
    Float32Array(p.count * 3, call,
                 [radius |-> p.radius, spin |-> p.spin, branches |-> p.branches,
                  randomness |-> p.randomness])

\* faulty variant: one float per particle instead of three
ColorsArrayShort(p, call) ==
    Float32Array(p.count, call,
                 [radius |-> p.radius, insideColor |-> p.insideColor,
                  outsideColor |-> p.outsideColor])

\* l.44: the colors buffer
ColorsArray(p, call) ==
    Float32Array(p.count * 3, call,
                 [radius |-> p.radius, insideColor |-> p.insideColor,
                  outsideColor |-> p.outsideColor])

\* faulty variant: an empty geometry gets no drawable in the scene
AttachNonEmpty(s, g, m) ==
    LET pt == Len(s.heap) + 1
    IN  [s EXCEPT !.heap = Append(@, Points(g, m)), !.points = pt,
                  !.scene = IF s.heap[g].position.length > 0 THEN @ \cup {pt} ELSE @]

\* l.81-82: build the Points object and add it to the scene
Attach(s, g, m) ==
    LET pt == Len(s.heap) + 1
    IN  [s EXCEPT !.heap = Append(@, Points(g, m)), !.points = pt,
                  !.scene = @ \cup {pt}]

\* faulty variant: the rotation is never assigned
RotateNothing(s) == s

\* l.84: points.rotation.x = Math.PI / 2
Rotate(s) == [s EXCEPT !.heap[s.points].rotationX = HalfPi]

\* l.35-85, run on module state s with parameters p, as invocation call
generateGalaxy(s, p, call) ==
    LET s1 == Teardown(s)
        g == Len(s1.heap) + 1
        s2 == [s1 EXCEPT !.heap = Append(@, BufferGeometry), !.geometry = g]
        positions == PositionsArray(p, call)
        colors == ColorsArray(p, call)
    IN  IF positions = RangeError \/ colors = RangeError
        THEN [s2 EXCEPT !.thrown = TRUE]
        ELSE LET s3 == [s2 EXCEPT !.heap[g].position = positions,
                                  !.heap[g].color = colors]
                 m == Len(s3.heap) + 1
                 s4 == [s3 EXCEPT !.heap = Append(@, PointsMaterial(p.size)),
                                  !.galaxyMaterial = m]
             IN  Rotate(Attach(s4, g, m))

\* the module state after an invocation of generateGalaxy with parameters p
Invoke(p) ==
    LET s == generateGalaxy(Cur, p, calls + 1)
    IN  /\ geometry' = s.geometry
        /\ galaxyMaterial' = s.galaxyMaterial
        /\ points' = s.points
        /\ heap' = s.heap
        /\ disposed' = s.disposed
        /\ scene' = s.scene
        /\ thrown' = s.thrown
        /\ calls' = calls + 1

(* ------------------------------ actions ------------------------------- *)
NoParticle == [pc |-> "idle"]

Init ==
    /\ parameters = DefaultParameters
    /\ geometry = Null
    /\ galaxyMaterial = Null
    /\ points = Null
    /\ heap = <<>>
    /\ disposed = {}
    /\ scene = {}
    /\ calls = 0
    /\ thrown = FALSE
    /\ loaded = FALSE
    /\ changed = "none"
    /\ rendered = {}
    /\ particle = NoParticle

\* what the renderer reads of a galaxy child of the scene
View(id) ==
    [points |-> id,
     position |-> heap[heap[id].geometry].position,
     color |-> heap[heap[id].geometry].color,
     size |-> heap[heap[id].material].size,
     rotationX |-> heap[id].rotationX,
     geometryDisposed |-> heap[id].geometry \in disposed,
     materialDisposed |-> heap[id].material \in disposed]

\* l.226: renderer.render(scene, camera) draws every galaxy child
Render == {View(id) : id \in scene}

\* l.87-231: the module body: the first generateGalaxy(), the controllers,
\* and the first tick()
Start ==
    /\ ~loaded
    /\ Invoke(parameters)
    /\ loaded' = TRUE
    /\ rendered' = Render'
    /\ UNCHANGED <<parameters, changed, particle>>

\* lil-gui writes a controller's new value into parameters while the user
\* edits it (l.93-101 bind the controllers to the parameters object)
Drag(f, v) ==
    /\ loaded
    /\ changed \in {"none", f}
    /\ v \in UIRange[f]
    /\ v # parameters[f]
    /\ parameters' = [parameters EXCEPT ![f] = v]
    /\ changed' = f
    /\ UNCHANGED <<geometry, galaxyMaterial, points, heap, disposed, scene,
                   calls, thrown, loaded, rendered, particle>>

\* faulty variant: the randomnessPower controller has no finish-change callback
OnFinishChangeUnwired(f) ==
    IF f = "randomnessPower"
    THEN UNCHANGED <<geometry, galaxyMaterial, points, heap, disposed, scene,
                     thrown, calls>>
    ELSE Invoke(parameters)

\* the callback registered with onFinishChange for controller f (l.93-101)
OnFinishChange(f) == Invoke(parameters)

\* the finish-change event of controller f
FinishChange(f) ==
    /\ loaded
    /\ changed = f
    /\ calls < MaxCalls
    /\ OnFinishChange(f)
    /\ changed' = "none"
    /\ UNCHANGED <<parameters, loaded, rendered, particle>>

\* l.201-229: one animation frame.  The camera parallax and the mesh
\* rotations it advances are read by no other handler and are left out.
tick ==
    /\ loaded
    /\ rendered' = Render
    /\ UNCHANGED <<parameters, geometry, galaxyMaterial, points, heap, disposed,
                   scene, calls, thrown, loaded, changed, particle>>

\* a caller that sets one field of parameters to any finite value and
\* invokes generateGalaxy directly
Generate(f, v) ==
    /\ loaded
    /\ calls < MaxCalls
    /\ v \in AnyRange[f]
    /\ parameters' = [parameters EXCEPT ![f] = v]
    /\ Invoke(parameters')
    /\ UNCHANGED <<loaded, changed, rendered, particle>>

Next ==
    \/ Start
    \/ \E f \in Fields : \E v \in UIRange[f] : Drag(f, v)
    \/ \E f \in Fields : FinishChange(f)
    \/ tick

\* the program: the page as the user drives it
Spec == Init /\ [][Next]_vars

NextAny ==
    \/ Start
    \/ \E f \in Fields : \E v \in AnyRange[f] : Generate(f, v)
    \/ tick

\* the generator under any finite parameter values
SpecAny == Init /\ [][NextAny]_vars

(* ------------------------ the loop-body machine ----------------------- *)
\* every index, parameter value and sequence of draws, before the iteration
InitParticle ==
    /\ parameters = DefaultParameters
    /\ geometry = Null
    /\ galaxyMaterial = Null
    /\ points = Null
    /\ heap = <<>>
    /\ disposed = {}
    /\ scene = {}
    /\ calls = 0
    /\ thrown = FALSE
    /\ loaded = FALSE
    /\ changed = "none"
    /\ rendered = {}
    /\ particle \in [pc : {"in"}, i : 0..MaxIndex, p : ParticleParameters, u : Draws]

\* l.49-68: one iteration of the loop (i < parameters.count)
LoopBody ==
    /\ particle.pc = "in"
    /\ particle.i < particle.p.count
    /\ particle' = [pc |-> "out", i |-> particle.i, p |-> particle.p, u |-> particle.u,
                    out |-> Particle(particle.i, particle.p, particle.u)]
    /\ UNCHANGED <<parameters, geometry, galaxyMaterial, points, heap, disposed,
                   scene, calls, thrown, loaded, changed, rendered>>

\* the loop body as a function of its inputs
SpecParticle == InitParticle /\ [][LoopBody]_vars

(* ------------------------------- claims ------------------------------- *)
\* the current output is complete: the scene holds exactly the Points object
\* in points, built on the geometry in geometry and the material in
\* galaxyMaterial, both carrying their data and neither disposed
OutputAttached ==
    /\ points # Null
    /\ scene = {points}
    /\ heap[points].geometry = geometry
    /\ heap[points].material = galaxyMaterial
    /\ heap[geometry].position # Undefined
    /\ heap[geometry].color # Undefined
    /\ geometry \notin disposed
    /\ galaxyMaterial \notin disposed

\* C1: after a call of generateGalaxy that read a count >= 0, the positions
\* and the colors buffer of the current geometry both have length 3 * count
\* (under SpecAny parameters changes only in the step that calls
\* generateGalaxy, so parameters.count is the count that call read).
C1_BufferLengths ==
    (calls > 0 /\ parameters.count >= 0) =>
        /\ heap[geometry].position # Undefined
        /\ heap[geometry].color # Undefined
        /\ heap[geometry].position.length = 3 * parameters.count
        /\ heap[geometry].color.length = 3 * parameters.count

C1_Witness ==
    /\ calls >= 2
    /\ parameters.count = 100
    /\ heap[geometry].position # Undefined
    /\ heap[geometry].position.length = 300
    /\ heap[geometry].color.length = 300

\* C2: once the page is loaded the scene holds exactly one galaxy drawable,
\* the one built by the latest call, and every geometry and material of an
\* earlier call has been disposed.
C2_OneDrawable ==
    loaded =>
        /\ OutputAttached
        /\ heap[geometry].position.call = calls
        /\ \A id \in 1..Len(heap) :
              heap[id].type \in {"BufferGeometry", "PointsMaterial"} =>
                  (id \in disposed <=> id \notin {geometry, galaxyMaterial})

C2_Witness ==
    /\ calls = MaxCalls
    /\ scene = {points}
    /\ Cardinality(disposed) = 2 * (MaxCalls - 1)

\* C3 (as claimed): with count = 0 both buffers are empty, nothing is raised
\* and no galaxy Points object is attached to the scene.
C3_NoDrawable ==
    (calls > 0 /\ parameters.count = 0) =>
        /\ ~thrown
        /\ heap[geometry].position.length = 0
        /\ heap[geometry].color.length = 0
        /\ scene = {}

\* C3 (amended): with count = 0 both buffers are empty, nothing is raised and
\* a drawable is still produced: the Points object built on the empty
\* geometry is attached to the scene.
C3_EmptyDrawable ==
    (calls > 0 /\ parameters.count = 0) =>
        /\ ~thrown
        /\ OutputAttached
        /\ heap[geometry].position.length = 0
        /\ heap[geometry].color.length = 0

C3_Witness ==
    /\ calls > 0
    /\ parameters.count = 0
    /\ points \in scene

\* the claimed jitter: sign(u - 0.5) * |u - 0.5|^power * 2 * randomness * radius
RAbs(x) == [n |-> Abs(x.n), d |-> x.d]

RSign(x) == Num(IF x.n > 0 THEN 1 ELSE IF x.n < 0 THEN -1 ELSE 0)

RECURSIVE RPow(_, _)
RPow(x, k) == IF k = 0 THEN Num(1) ELSE RMul(x, RPow(x, k - 1))

ClaimedJitter(u, p, radius) ==
    LET c == RSub(u, R(1, 2))
    IN  RMul(RMul(RMul(RMul(RSign(c), RPow(RAbs(c), p.randomnessPower.n)), Num(2)),
                  p.randomness), radius)

\* C4 (as claimed): on each axis the jitter added to the position is
\* sign(u-0.5) * |u-0.5|^randomnessPower * 2 * randomness * radius_i.
C4_PowerJitter ==
    particle.pc = "out" =>
        LET ri == RMul(particle.u.radius, particle.p.radius)
        IN  /\ particle.out.position[1].plus = ClaimedJitter(particle.u.x, particle.p, ri)
            /\ particle.out.position[2] = ClaimedJitter(particle.u.y, particle.p, ri)
            /\ particle.out.position[3].plus = ClaimedJitter(particle.u.z, particle.p, ri)

\* C5 (as claimed): generateGalaxy never raises and always leaves a freshly
\* built buffer pair and drawable as the current output.
C5_NeverRaises == calls > 0 => (~thrown /\ OutputAttached)

\* C6 (as claimed): with parameters.radius = 0 the colour written for a
\* particle is a defined colour, insideColor.
C6_RadiusZeroColor ==
    (particle.pc = "out" /\ particle.p.radius = Num(0)) =>
        particle.out.color = Color(particle.p.insideColor)

\* C7: every frame draws at most one galaxy drawable, whose positions and
\* colors buffers come from the same call and have the same length, and
\* whose geometry and material are not disposed.
C7_FrameSeesOnePair ==
    /\ Cardinality(rendered) <= 1
    /\ \A v \in rendered :
          /\ v.position # Undefined
          /\ v.color # Undefined
          /\ v.position.call = v.color.call
          /\ v.position.length = v.color.length
          /\ ~v.geometryDisposed
          /\ ~v.materialDisposed

C7_Witness ==
    /\ calls = MaxCalls
    /\ \E v \in rendered : v.position.call = MaxCalls /\ v.points = points

\* C8: every finish-change event invokes generateGalaxy exactly once, and the
\* drawable attached afterwards is built from the parameter values of that
\* moment.
C8_CommitRegenerates ==
    [][(changed # "none" /\ changed' = "none") =>
          /\ calls' = calls + 1
          /\ ~thrown'
          /\ OutputAttached'
          /\ heap'[galaxyMaterial'].size = parameters'.size
          /\ heap'[geometry'].position = PositionsArray(parameters', calls')
          /\ heap'[geometry'].color = ColorsArray(parameters', calls')]_vars

C8_Witness ==
    /\ changed = "none"
    /\ calls >= 2
    /\ parameters.randomnessPower # DefaultParameters.randomnessPower
    /\ heap[galaxyMaterial].size = parameters.size

\* the documented ranges of the fields the loop body reads for a position
Documented(p) ==
    /\ p.branches \in 2..20
    /\ RLe(Num(1), p.radius)
    /\ RLe(p.radius, Num(20))

\* C9: particle i lies on arm i mod branches, at branchAngle
\* (i mod branches) / branches turns; with randomness = 0 its y is 0 and its
\* (x, z) is (cos, sin)(branchAngle + radius_i * spin) * radius_i with no
\* deviation, radius_i being the radius draw times parameters.radius, which
\* lies in [0, parameters.radius].
C9_OnArm ==
    (particle.pc = "out" /\ Documented(particle.p)
        /\ particle.p.randomness = Num(0)) =>
        LET ri == RMul(particle.u.radius, particle.p.radius)
            arm == particle.i % particle.p.branches
            turns == R(arm, particle.p.branches)
            rad == RMul(ri, particle.p.spin)
        IN  /\ particle.out.position[1] =
                 [fn |-> "cos", turns |-> turns, rad |-> rad, radius |-> ri, plus |-> Num(0)]
            /\ particle.out.position[2] = Num(0)
            /\ particle.out.position[3] =
                 [fn |-> "sin", turns |-> turns, rad |-> rad, radius |-> ri, plus |-> Num(0)]
            /\ RLe(Num(0), ri)
            /\ RLe(ri, particle.p.radius)

C9_Witness ==
    /\ particle.pc = "out"
    /\ Documented(particle.p)
    /\ particle.p.randomness = Num(0)
    /\ particle.i >= particle.p.branches
    /\ particle.u.radius.n > 0
    /\ particle.u.x # R(1, 2)
    /\ particle.out.position[1].turns = R(particle.i - particle.p.branches, particle.p.branches)

\* C10: every galaxy drawable a frame draws has rotation.x = PI / 2.
C10_RotatedWhenDrawn == \A v \in rendered : v.rotationX = HalfPi

C10_Witness ==
    /\ calls >= 2
    /\ \E v \in rendered : v.points = points /\ v.rotationX = HalfPi

====
